---- MODULE Spec2Model ----
(***************************************************************************)
(* Model of src/endpoint/app.py: the playback process lifecycle manager    *)
(* of pi-audio-endpoint.  Shared state is the module globals STATE, PROC   *)
(* and STATE_LOCK; the operations are the HTTP handlers play, stop and     *)
(* status, and the session thread spawn_player started by every play.      *)
(* External player processes are part of the environment: they exit by     *)
(* themselves or because of a signal sent by stop_playback_locked.          *)
(*                                                                         *)
(* Grain of the actions.  A step is a stretch of code between two points   *)
(* where another thread can interfere: taking or releasing STATE_LOCK, and *)
(* every read or write of the global PROC, which spawn_player also touches *)
(* without the lock.  Code that touches no shared state is joined to the   *)
(* step next to it: safe_resolve_path to the taking of the lock in play,   *)
(* build_command and Thread.start to the release of the lock in play.      *)
(* Calls are numbered in the order in which they take the lock; session i  *)
(* is the thread started by play call i and process i the one it spawns.   *)
(***************************************************************************)
EXTENDS Integers, Sequences, FiniteSets, TLC

(* ------------------------------ bounds -------------------------------- *)
\* number of play calls (each successful one starts one session thread)
MaxPlays == 2
\* number of stop calls
MaxStops == 1

Plays == 1..MaxPlays

(* ---------------------------- Optional[T] ----------------------------- *)
None == <<>>
Some(v) == <<v>>

(* ------------------------- paths and the files ------------------------ *)
\* a path component: a name split as pathlib splits it (stem, suffix)
Comp(s, e) == [stem |-> s, ext |-> e]
DotDot == Comp("..", "")

MUSIC_ROOT == <<Comp("mnt", ""), Comp("music", "")>>
ALSA_DEVICE == "hw:2,0"

\* the file system the daemon runs on: regular files and directories
FsFiles ==
  { MUSIC_ROOT \o <<Comp("a", ".flac")>>,
    MUSIC_ROOT \o <<Comp("b", ".PCM")>>,
    MUSIC_ROOT \o <<Comp("c", ".txt")>>,
    MUSIC_ROOT \o <<Comp("d", ".wav")>>,
    MUSIC_ROOT \o <<Comp("e", ".WAVE")>>,
    MUSIC_ROOT \o <<Comp("f", ".raw")>>,
    MUSIC_ROOT \o <<Comp("g", ".pcm")>>,
    MUSIC_ROOT \o <<Comp("h", ".wave")>>,
    MUSIC_ROOT \o <<Comp("x;reboot", ".FLAC")>>,
    MUSIC_ROOT \o <<Comp("y z$(id)", ".wav")>>,
    <<Comp("etc", ""), Comp("passwd", "")>> }
FsDirs ==
  { <<>>, <<Comp("mnt", "")>>, MUSIC_ROOT, MUSIC_ROOT \o <<Comp("sub", "")>>,
    <<Comp("etc", "")>> }

\* a request path: absolute or relative, a sequence of components
RawPath(a, ps) == [abs |-> a, parts |-> ps]

\* the paths a play request may carry
InputPaths ==
  { RawPath(FALSE, <<Comp("a", ".flac")>>),
    RawPath(FALSE, <<Comp("b", ".PCM")>>),
    RawPath(FALSE, <<Comp("sub", ""), DotDot, Comp("c", ".txt")>>),
    RawPath(FALSE, <<Comp("nope", ".wav")>>),
    RawPath(FALSE, <<Comp("sub", "")>>),
    RawPath(FALSE, <<DotDot, DotDot, Comp("etc", ""), Comp("passwd", "")>>),
    RawPath(TRUE, <<Comp("etc", ""), Comp("nothere", "")>>) }

\* Path.resolve(): drop every ".." together with the component before it
\* (".." at the file system root stays at the root)
RECURSIVE Normalize(_, _)
Normalize(done, rest) ==
  IF rest = <<>> THEN done
  ELSE IF Head(rest) = DotDot
       THEN Normalize(IF done = <<>> THEN <<>> ELSE SubSeq(done, 1, Len(done) - 1),
                      Tail(rest))
       ELSE Normalize(Append(done, Head(rest)), Tail(rest))

Resolve(raw) ==
  Normalize(<<>>, IF raw.abs THEN raw.parts ELSE MUSIC_ROOT \o raw.parts)

\* resolved.relative_to(MUSIC_ROOT) does not raise
IsRelativeTo(p, root) ==
  /\ Len(p) >= Len(root)
  /\ SubSeq(p, 1, Len(root)) = root

\* safe_resolve_path with the exists() and is_file() checks of lines 56-60
\* made before the relative_to() check of lines 51-54
safe_resolve_path_ExistsFirst(raw) ==
  LET resolved == Resolve(raw) IN
  IF resolved \notin (FsFiles \cup FsDirs)
  THEN [ok |-> FALSE, code |-> 404, detail |-> "File does not exist", path |-> <<>>]
  ELSE IF resolved \notin FsFiles
  THEN [ok |-> FALSE, code |-> 400, detail |-> "Path is not a file", path |-> <<>>]
  ELSE IF ~IsRelativeTo(resolved, MUSIC_ROOT)
  THEN [ok |-> FALSE, code |-> 400, detail |-> "Path is outside music_root", path |-> <<>>]
  ELSE [ok |-> TRUE, code |-> 200, detail |-> "", path |-> resolved]

\* safe_resolve_path: the resolved path, or the HTTPException it raises
safe_resolve_path(raw) ==
  LET resolved == Resolve(raw) IN
  IF ~IsRelativeTo(resolved, MUSIC_ROOT)
  THEN [ok |-> FALSE, code |-> 400, detail |-> "Path is outside music_root", path |-> <<>>]
  ELSE IF resolved \notin (FsFiles \cup FsDirs)
  THEN [ok |-> FALSE, code |-> 404, detail |-> "File does not exist", path |-> <<>>]
  ELSE IF resolved \notin FsFiles
  THEN [ok |-> FALSE, code |-> 400, detail |-> "Path is not a file", path |-> <<>>]
  ELSE [ok |-> TRUE, code |-> 200, detail |-> "", path |-> resolved]

(* ------------------------------ requests ------------------------------ *)
Kinds == {"auto", "flac", "wav", "pcm"}

PlayRequest(k, f, r, c) ==
  [kind |-> k, pcm_format |-> f, pcm_rate |-> r, pcm_channels |-> c]

\* the request bodies a play call may carry (the path is drawn separately)
Requests ==
  { PlayRequest("auto", None, None, None),
    PlayRequest("pcm", Some("S16_LE"), None, Some(2)),
    PlayRequest("pcm", None, Some(44100), Some(2)),
    PlayRequest("pcm", Some("S16_LE"), Some(44100), None) }

\* str.lower() on a file suffix
Lower(e) ==
  CASE e = ".FLAC" -> ".flac"
    [] e = ".WAV" -> ".wav"
    [] e = ".WAVE" -> ".wave"
    [] e = ".PCM" -> ".pcm"
    [] e = ".RAW" -> ".raw"
    [] OTHER -> e

\* Python truthiness of an Optional[str] and of an Optional[int]:
\* None, "" and 0 are false
TruthyStr(o) == o # None /\ o[1] # ""
TruthyInt(o) == o # None /\ o[1] # 0

\* the words of a shell command line: text written into the f-string as it
\* is, an int() rendered into it, and the argument of a shlex.quote(), which
\* the shell reads as one word holding the string or the path literally
Lit(s) == [q |-> FALSE, s |-> s, p |-> <<>>, n |-> 0]
Num(n) == [q |-> FALSE, s |-> "", p |-> <<>>, n |-> n]
Quote(s) == [q |-> TRUE, s |-> s, p |-> <<>>, n |-> 0]
\* str(file_path) written into the f-string without shlex.quote()
QuotePath_Raw(p) == [q |-> FALSE, s |-> "", p |-> p, n |-> 0]
QuotePath(p) == [q |-> TRUE, s |-> "", p |-> p, n |-> 0]

\* the detection of lines 154-160 without the ".wave" spelling
ResolveKind_NoWave(kind, ext) ==
  IF kind # "auto" THEN kind
  ELSE IF ext = ".flac" THEN "flac"
  ELSE IF ext = ".wav" THEN "wav"
  ELSE IF ext \in {".pcm", ".raw"} THEN "pcm"
  ELSE ""

\* the kind build_command settles on, "" when it raises "Unknown file type"
ResolveKind(kind, ext) ==
  IF kind # "auto" THEN kind
  ELSE IF ext = ".flac" THEN "flac"
  ELSE IF ext \in {".wav", ".wave"} THEN "wav"
  ELSE IF ext \in {".pcm", ".raw"} THEN "pcm"
  ELSE ""

\* build_command with pcm_rate left out of the check of line 177 and
\* rendered as int(req.pcm_rate or 0)
build_command_RateOptional(rq, file_path) ==
  LET ext == Lower(file_path[Len(file_path)].ext)
      kind == ResolveKind(rq.kind, ext)
      f == QuotePath(file_path)
      dev == Quote(ALSA_DEVICE)
  IN
  IF kind = ""
  THEN [ok |-> FALSE, code |-> 400, detail |-> "Unknown file type", cmd |-> <<>>]
  ELSE IF kind = "flac"
  THEN [ok |-> TRUE, code |-> 200, detail |-> "",
        cmd |-> <<Lit("/usr/bin/ffmpeg"), Lit("-loglevel"), Lit("error"), Lit("-i"), f,
                  Lit("-f"), Lit("wav"), Lit("-c:a"), Lit("pcm_s32le"), Lit("-ac"),
                  Lit("2"), Lit("-"), Lit("|"),
                  Lit("/usr/bin/aplay"), Lit("-D"), dev>>]
  ELSE IF kind = "wav"
  THEN [ok |-> TRUE, code |-> 200, detail |-> "",
        cmd |-> <<Lit("/usr/bin/aplay"), Lit("-D"), dev, f>>]
  ELSE IF kind = "pcm"
  THEN IF ~TruthyStr(rq.pcm_format) \/ ~TruthyInt(rq.pcm_channels)
       THEN [ok |-> FALSE, code |-> 400, detail |-> "pcm parameters are required",
             cmd |-> <<>>]
       ELSE [ok |-> TRUE, code |-> 200, detail |-> "",
             cmd |-> <<Lit("/usr/bin/aplay"), Lit("-D"), dev,
                       Lit("-f"), Quote(rq.pcm_format[1]),
                       Lit("-r"), Num(IF TruthyInt(rq.pcm_rate) THEN rq.pcm_rate[1] ELSE 0),
                       Lit("-c"), Num(rq.pcm_channels[1]), f>>]
  ELSE [ok |-> FALSE, code |-> 400, detail |-> "Unsupported kind", cmd |-> <<>>]

\* build_command: the shell command (a sequence of shell words), or the error
build_command(rq, file_path) ==
  LET ext == Lower(file_path[Len(file_path)].ext)
      kind == ResolveKind(rq.kind, ext)
      f == QuotePath(file_path)
      dev == Quote(ALSA_DEVICE)
  IN
  IF kind = ""
  THEN [ok |-> FALSE, code |-> 400, detail |-> "Unknown file type", cmd |-> <<>>]
  ELSE IF kind = "flac"
  THEN [ok |-> TRUE, code |-> 200, detail |-> "",
        cmd |-> <<Lit("/usr/bin/ffmpeg"), Lit("-loglevel"), Lit("error"), Lit("-i"), f,
                  Lit("-f"), Lit("wav"), Lit("-c:a"), Lit("pcm_s32le"), Lit("-ac"),
                  Lit("2"), Lit("-"), Lit("|"),
                  Lit("/usr/bin/aplay"), Lit("-D"), dev>>]
  ELSE IF kind = "wav"
  THEN [ok |-> TRUE, code |-> 200, detail |-> "",
        cmd |-> <<Lit("/usr/bin/aplay"), Lit("-D"), dev, f>>]
  ELSE IF kind = "pcm"
  THEN IF ~TruthyStr(rq.pcm_format) \/ ~TruthyInt(rq.pcm_rate) \/ ~TruthyInt(rq.pcm_channels)
       THEN [ok |-> FALSE, code |-> 400, detail |-> "pcm parameters are required",
             cmd |-> <<>>]
       ELSE [ok |-> TRUE, code |-> 200, detail |-> "",
             cmd |-> <<Lit("/usr/bin/aplay"), Lit("-D"), dev,
                       Lit("-f"), Quote(rq.pcm_format[1]),
                       Lit("-r"), Num(rq.pcm_rate[1]),
                       Lit("-c"), Num(rq.pcm_channels[1]), f>>]
  ELSE [ok |-> FALSE, code |-> 400, detail |-> "Unsupported kind", cmd |-> <<>>]

(* --------------------- Popen and the shell it runs -------------------- *)
\* line 116: the argument vector given to subprocess.Popen
PopenArgs(c) == <<"/bin/sh", "-lc", c>>

\* the file names (stems) of this file system in which sh finds characters
\* that are special to it: ";", blank, "$(...)"
ShellMetaNames == {"x;reboot", "y z$(id)"}
HasShellMeta(p) == \E k \in 1..Len(p) : p[k].stem \in ShellMetaNames

\* what sh -c runs for the command line c: the first word of every stage of
\* the pipeline, and whatever an unquoted word with special characters turns
\* into (a second command, a command substitution)
Injected == "injected"
ShPrograms(c) ==
  { c[k].s : k \in {1} \cup {j + 1 : j \in {m \in 1..(Len(c) - 1) : c[m] = Lit("|")}} }
    \cup (IF \E k \in 1..Len(c) : ~c[k].q /\ c[k].p # <<>> /\ HasShellMeta(c[k].p)
          THEN {Injected} ELSE {})

\* the words sh hands to a program as one argument holding the path p as it is
ShLiteralArgs(c, p) == {k \in 1..Len(c) : c[k].q /\ c[k].p = p}

(* --------------------------- the shared state ------------------------- *)
VARIABLES
  State,       \* the PlayerState singleton STATE (STATE is a reserved word)
  PROC,        \* the owned Popen handle: None, or Some(i) for session i's process
  lock,        \* STATE_LOCK: Free, or the call or thread holding it
  spStep,      \* where the holder of the lock is inside stop_playback_locked
  req,         \* the request of the play call that holds the lock
  nPlays,      \* play calls made so far
  nStops,      \* stop calls made so far
  playRes,     \* the HTTP status of the latest answer to a play call (0: none yet)
  file,        \* per play call: file_path, then the thread's display_file
  cmd,         \* per session thread: the cmd argument, until Popen uses it
  pcSess,      \* per session thread: its position in spawn_player
  tmpProc,     \* per session thread: the Popen it is draining or waiting on
  procSt,      \* per external process: "none", "running", "exited"
  procRc,      \* per external process: its return code once exited
  sigterm,     \* per external process: a SIGTERM was sent and it still runs
  quiet,       \* processes that exited by themselves with no play or stop call
               \* in progress, none having been made since
  lastStatus   \* what the latest status call returned

vars == <<State, PROC, lock, spStep, req, nPlays, nStops, playRes, file,
          cmd, pcSess, tmpProc, procSt, procRc, sigterm, quiet, lastStatus>>

Free == <<>>
NoReq == <<>>
NoRes == 0
OkRes == 200
Pid(i) == 4000 + i
Now == "now"
ExitMsg(rc) == <<"Player exited with code", rc>>
SIGTERM == 15
SIGKILL == 9

PlayerState == [status |-> "stopped", current_file |-> None, started_utc |-> None,
                pid |-> None, last_error |-> None, last_exit_code |-> None]

Alive(i) == procSt[i] = "running"
\* PROC.poll() is None
Polls(h) == h # None /\ Alive(h[1])
CallInProgress == lock # Free /\ lock[1] \in {"play", "stop"}

Init ==
  /\ State = PlayerState
  /\ PROC = None
  /\ lock = Free
  /\ spStep = "none"
  /\ req = NoReq
  /\ nPlays = 0
  /\ nStops = 0
  /\ playRes = NoRes
  /\ file = [i \in Plays |-> <<>>]
  /\ cmd = [i \in Plays |-> <<>>]
  /\ pcSess = [i \in Plays |-> "unstarted"]
  /\ tmpProc = [i \in Plays |-> None]
  /\ procSt = [i \in Plays |-> "none"]
  /\ procRc = [i \in Plays |-> 0]
  /\ sigterm = [i \in Plays |-> FALSE]
  /\ quiet = {}
  /\ lastStatus = PlayerState

(* --------------------------------- status ----------------------------- *)
\* status(): asdict(STATE) under the lock
Status ==
  /\ lock = Free
  /\ lastStatus' = State
  /\ UNCHANGED <<State, PROC, lock, spStep, req, nPlays, nStops, playRes, file, cmd,
                 pcSess, tmpProc, procSt, procRc, sigterm, quiet>>

(* ---------------------------------- play ------------------------------ *)
\* play() with the preemptive stop moved before safe_resolve_path: the call
\* is answered with the error after the owned process was dropped and the
\* state reset
PlayReject_StopFirst(raw) ==
  /\ nPlays < MaxPlays
  /\ ~safe_resolve_path(raw).ok
  /\ lock = Free
  /\ nPlays' = nPlays + 1
  /\ playRes' = safe_resolve_path(raw).code
  /\ quiet' = {}
  /\ PROC' = None
  /\ State' = [State EXCEPT !.status = "stopped", !.current_file = None,
                            !.started_utc = None, !.pid = None]
  /\ UNCHANGED <<lock, spStep, req, nStops, file, cmd, pcSess, tmpProc, procSt,
                 procRc, sigterm, lastStatus>>

\* play(): safe_resolve_path raises, the call is answered with the error
PlayReject(raw) ==
  /\ nPlays < MaxPlays
  /\ ~safe_resolve_path(raw).ok
  /\ nPlays' = nPlays + 1
  /\ playRes' = safe_resolve_path(raw).code
  /\ quiet' = {}
  /\ UNCHANGED <<State, PROC, lock, spStep, req, nStops, file, cmd, pcSess, tmpProc,
                 procSt, procRc, sigterm, lastStatus>>

\* play(): the path resolves, the call takes the lock for its preemptive stop
PlayCall(raw, rq) ==
  /\ nPlays < MaxPlays
  /\ safe_resolve_path(raw).ok
  /\ lock = Free
  /\ nPlays' = nPlays + 1
  /\ lock' = <<"play", nPlays + 1>>
  /\ spStep' = "check"
  /\ req' = rq
  /\ file' = [file EXCEPT ![nPlays + 1] = safe_resolve_path(raw).path]
  /\ quiet' = {}
  /\ UNCHANGED <<State, PROC, nStops, playRes, cmd, pcSess, tmpProc, procSt, procRc,
                 sigterm, lastStatus>>

(* ---------------------------------- stop ------------------------------ *)
\* stop(): takes the lock and enters stop_playback_locked
StopCall ==
  /\ nStops < MaxStops
  /\ lock = Free
  /\ nStops' = nStops + 1
  /\ lock' = <<"stop", nStops + 1>>
  /\ spStep' = "check"
  /\ quiet' = {}
  /\ UNCHANGED <<State, PROC, req, nPlays, playRes, file, cmd, pcSess, tmpProc,
                 procSt, procRc, sigterm, lastStatus>>

(* -------------------------- stop_playback_locked ---------------------- *)
\* every step reads the global PROC anew, as the statements of the function do

\* lines 94-97: if PROC and PROC.poll() is None, then
\* killpg(getpgid(PROC.pid), SIGTERM); nothing is signalled when no process
\* is owned or the owned one has exited
SpTerm ==
  /\ lock # Free /\ spStep = "check"
  /\ IF Polls(PROC)
     THEN /\ sigterm' = [sigterm EXCEPT ![PROC[1]] = TRUE]
          /\ spStep' = "wait"
     ELSE /\ spStep' = "clearproc"
          /\ UNCHANGED sigterm
  /\ UNCHANGED <<State, PROC, lock, req, nPlays, nStops, playRes, file, cmd, pcSess,
                 tmpProc, procSt, procRc, quiet, lastStatus>>

\* line 99: PROC.wait(timeout=3) returns, the process exited within the grace
SpWaitExit ==
  /\ lock # Free /\ spStep = "wait"
  /\ ~Polls(PROC)
  /\ spStep' = "clearproc"
  /\ UNCHANGED <<State, PROC, lock, req, nPlays, nStops, playRes, file, cmd, pcSess,
                 tmpProc, procSt, procRc, sigterm, quiet, lastStatus>>

\* lines 99-101: PROC.wait(timeout=3) raises TimeoutExpired, then
\* killpg(getpgid(PROC.pid), SIGKILL), which no process survives
SpKill ==
  /\ lock # Free /\ spStep = "wait"
  /\ Polls(PROC)
  /\ procSt' = [procSt EXCEPT ![PROC[1]] = "exited"]
  /\ procRc' = [procRc EXCEPT ![PROC[1]] = -SIGKILL]
  /\ sigterm' = [sigterm EXCEPT ![PROC[1]] = FALSE]
  /\ spStep' = "clearproc"
  /\ UNCHANGED <<State, PROC, lock, req, nPlays, nStops, playRes, file, cmd, pcSess,
                 tmpProc, quiet, lastStatus>>

\* line 105: PROC = None
SpClearProc ==
  /\ lock # Free /\ spStep = "clearproc"
  /\ PROC' = None
  /\ spStep' = "clearstate"
  /\ UNCHANGED <<State, lock, req, nPlays, nStops, playRes, file, cmd, pcSess,
                 tmpProc, procSt, procRc, sigterm, quiet, lastStatus>>

\* lines 106-109
Stopped(S) == [S EXCEPT !.status = "stopped", !.current_file = None,
                        !.started_utc = None, !.pid = None]

\* stop(): stop_playback_locked ends, the lock is released, {"ok": True}
StopReturn ==
  /\ lock # Free /\ lock[1] = "stop" /\ spStep = "clearstate"
  /\ State' = Stopped(State)
  /\ spStep' = "none"
  /\ lock' = Free
  /\ UNCHANGED <<PROC, req, nPlays, nStops, playRes, file, cmd, pcSess, tmpProc,
                 procSt, procRc, sigterm, quiet, lastStatus>>

\* play(): the preemptive stop ends and the lock is released; build_command
\* then either raises or gives the command the new session thread is started on
PlayFinish(i) ==
  /\ lock = <<"play", i>> /\ spStep = "clearstate"
  /\ State' = Stopped(State)
  /\ spStep' = "none"
  /\ lock' = Free
  /\ req' = NoReq
  /\ LET b == build_command(req, file[i]) IN
     IF b.ok
     THEN /\ cmd' = [cmd EXCEPT ![i] = b.cmd]
          /\ pcSess' = [pcSess EXCEPT ![i] = "spawn"]
          /\ playRes' = OkRes
          /\ UNCHANGED file
     ELSE /\ playRes' = b.code
          /\ file' = [file EXCEPT ![i] = <<>>]
          /\ UNCHANGED <<cmd, pcSess>>
  /\ UNCHANGED <<PROC, nPlays, nStops, tmpProc, procSt, procRc, sigterm, quiet,
                 lastStatus>>

(* ------------------------- the external processes --------------------- *)
\* the return codes a player process exits with by itself
ExitCodes == {0, 1}

\* a process ends by itself (end of the file, or a playback error)
ProcExit(i, rc) ==
  /\ Alive(i)
  /\ procSt' = [procSt EXCEPT ![i] = "exited"]
  /\ procRc' = [procRc EXCEPT ![i] = rc]
  /\ sigterm' = [sigterm EXCEPT ![i] = FALSE]
  /\ quiet' = IF CallInProgress THEN quiet ELSE quiet \cup {i}
  /\ UNCHANGED <<State, PROC, lock, spStep, req, nPlays, nStops, playRes, file, cmd,
                 pcSess, tmpProc, lastStatus>>

\* a process that was sent SIGTERM dies of it; Popen reports -SIGTERM
ProcTermExit(i) ==
  /\ Alive(i) /\ sigterm[i]
  /\ procSt' = [procSt EXCEPT ![i] = "exited"]
  /\ procRc' = [procRc EXCEPT ![i] = -SIGTERM]
  /\ sigterm' = [sigterm EXCEPT ![i] = FALSE]
  /\ UNCHANGED <<State, PROC, lock, spStep, req, nPlays, nStops, playRes, file, cmd,
                 pcSess, tmpProc, quiet, lastStatus>>

(* ------------------- spawn_player, the session thread ----------------- *)
\* lines 115-122: PROC = subprocess.Popen(...), the lock is not held
Spawn(i) ==
  /\ pcSess[i] = "spawn"
  /\ PROC' = Some(i)
  /\ procSt' = [procSt EXCEPT ![i] = "running"]
  /\ cmd' = [cmd EXCEPT ![i] = <<>>]
  /\ pcSess' = [pcSess EXCEPT ![i] = "setlock"]
  /\ UNCHANGED <<State, lock, spStep, req, nPlays, nStops, playRes, file, tmpProc,
                 procRc, sigterm, quiet, lastStatus>>

\* lines 115-122: Popen raises (OSError); the exception ends the thread
SpawnFail(i) ==
  /\ pcSess[i] = "spawn"
  /\ cmd' = [cmd EXCEPT ![i] = <<>>]
  /\ file' = [file EXCEPT ![i] = <<>>]
  /\ pcSess' = [pcSess EXCEPT ![i] = "spawn_failed"]
  /\ UNCHANGED <<State, PROC, lock, spStep, req, nPlays, nStops, playRes, tmpProc,
                 procSt, procRc, sigterm, quiet, lastStatus>>

\* line 124: with STATE_LOCK
SetLock(i) ==
  /\ pcSess[i] = "setlock"
  /\ lock = Free
  /\ lock' = <<"sess", i>>
  /\ pcSess' = [pcSess EXCEPT ![i] = "setplaying"]
  /\ UNCHANGED <<State, PROC, spStep, req, nPlays, nStops, playRes, file, cmd,
                 tmpProc, procSt, procRc, sigterm, quiet, lastStatus>>

\* spawn_player with the drain loop and PROC.wait() inside the with block of
\* line 124: the lock is kept when lines 125-130 are done
SetPlaying_HoldLock(i) ==
  /\ pcSess[i] = "setplaying"
  /\ lock = <<"sess", i>>
  /\ IF PROC = None
     THEN /\ State' = [State EXCEPT !.status = "playing",
                                    !.current_file = Some(file[i]),
                                    !.started_utc = Some(Now)]
          /\ pcSess' = [pcSess EXCEPT ![i] = "dead"]
          /\ lock' = Free
     ELSE /\ State' = [status |-> "playing", current_file |-> Some(file[i]),
                       started_utc |-> Some(Now), pid |-> Some(Pid(PROC[1])),
                       last_error |-> None, last_exit_code |-> None]
          /\ pcSess' = [pcSess EXCEPT ![i] = "drainopen"]
          /\ UNCHANGED lock
  /\ file' = [file EXCEPT ![i] = <<>>]
  /\ UNCHANGED <<PROC, spStep, req, nPlays, nStops, playRes, cmd, tmpProc, procSt,
                 procRc, sigterm, quiet, lastStatus>>

\* lines 125-130 and the release of the lock.  PROC.pid on line 128 reads the
\* global: with PROC = None it raises AttributeError after lines 125-127,
\* the with statement releases the lock and the exception ends the thread
SetPlaying(i) ==
  /\ pcSess[i] = "setplaying"
  /\ lock = <<"sess", i>>
  /\ IF PROC = None
     THEN /\ State' = [State EXCEPT !.status = "playing",
                                    !.current_file = Some(file[i]),
                                    !.started_utc = Some(Now)]
          /\ pcSess' = [pcSess EXCEPT ![i] = "dead"]
     ELSE /\ State' = [status |-> "playing", current_file |-> Some(file[i]),
                       started_utc |-> Some(Now), pid |-> Some(Pid(PROC[1])),
                       last_error |-> None, last_exit_code |-> None]
          /\ pcSess' = [pcSess EXCEPT ![i] = "drainopen"]
  /\ lock' = Free
  /\ file' = [file EXCEPT ![i] = <<>>]
  /\ UNCHANGED <<PROC, spStep, req, nPlays, nStops, playRes, cmd, tmpProc, procSt,
                 procRc, sigterm, quiet, lastStatus>>

\* lines 132-133: PROC.stdout, read from the global without the lock
DrainOpen(i) ==
  /\ pcSess[i] = "drainopen"
  /\ IF PROC = None
     THEN /\ pcSess' = [pcSess EXCEPT ![i] = "dead"]
          /\ UNCHANGED tmpProc
     ELSE /\ pcSess' = [pcSess EXCEPT ![i] = "drain"]
          /\ tmpProc' = [tmpProc EXCEPT ![i] = PROC]
  /\ UNCHANGED <<State, PROC, lock, spStep, req, nPlays, nStops, playRes, file, cmd,
                 procSt, procRc, sigterm, quiet, lastStatus>>

\* lines 133-136: the drained stream ends when its process is gone; then
\* PROC.wait() is called on whatever the global PROC is now
DrainEOF(i) ==
  /\ pcSess[i] = "drain"
  /\ ~Alive(tmpProc[i][1])
  /\ IF PROC = None
     THEN /\ pcSess' = [pcSess EXCEPT ![i] = "dead"]
          /\ tmpProc' = [tmpProc EXCEPT ![i] = None]
     ELSE /\ pcSess' = [pcSess EXCEPT ![i] = "wait"]
          /\ tmpProc' = [tmpProc EXCEPT ![i] = PROC]
  /\ UNCHANGED <<State, PROC, lock, spStep, req, nPlays, nStops, playRes, file, cmd,
                 procSt, procRc, sigterm, quiet, lastStatus>>

\* the rc that PROC.wait() on line 136 returns to session thread i
WaitRc(i) == procRc[tmpProc[i][1]]

\* lines 136-139: PROC.wait() returns rc, the lock is taken,
\* STATE.last_exit_code = rc; rc == 0 enters stop_playback_locked("natural_end")
ExitLock(i) ==
  /\ pcSess[i] = "wait"
  /\ ~Alive(tmpProc[i][1])
  /\ lock = Free
  /\ lock' = <<"sess", i>>
  /\ State' = [State EXCEPT !.last_exit_code = Some(WaitRc(i))]
  /\ IF WaitRc(i) = 0
     THEN /\ spStep' = "check"
          /\ pcSess' = [pcSess EXCEPT ![i] = "natural_end"]
     ELSE /\ pcSess' = [pcSess EXCEPT ![i] = "exit_rc"]
          /\ UNCHANGED spStep
  /\ UNCHANGED <<PROC, req, nPlays, nStops, playRes, file, cmd, tmpProc, procSt,
                 procRc, sigterm, quiet, lastStatus>>

\* lines 141 and 137: stop_playback_locked ends, the lock is released
NaturalEnd(i) ==
  /\ lock = <<"sess", i>> /\ spStep = "clearstate"
  /\ State' = Stopped(State)
  /\ spStep' = "none"
  /\ lock' = Free
  /\ pcSess' = [pcSess EXCEPT ![i] = "done"]
  /\ tmpProc' = [tmpProc EXCEPT ![i] = None]
  /\ UNCHANGED <<PROC, req, nPlays, nStops, playRes, file, cmd, procSt, procRc,
                 sigterm, quiet, lastStatus>>

\* lines 143-147 and the release of the lock: rc != 0
ExitError(i) ==
  /\ lock = <<"sess", i>> /\ pcSess[i] = "exit_rc"
  /\ State' = [State EXCEPT !.status = "error",
                            !.last_error = Some(ExitMsg(WaitRc(i))),
                            !.pid = None]
  /\ PROC' = None
  /\ lock' = Free
  /\ pcSess' = [pcSess EXCEPT ![i] = "done"]
  /\ tmpProc' = [tmpProc EXCEPT ![i] = None]
  /\ UNCHANGED <<spStep, req, nPlays, nStops, playRes, file, cmd, procSt, procRc,
                 sigterm, quiet, lastStatus>>

(* ------------------------------ the system ---------------------------- *)
Next ==
  \/ Status
  \/ \E raw \in InputPaths : PlayReject(raw)
  \/ \E raw \in InputPaths, rq \in Requests : PlayCall(raw, rq)
  \/ \E i \in Plays : PlayFinish(i)
  \/ StopCall
  \/ StopReturn
  \/ SpTerm
  \/ SpWaitExit
  \/ SpKill
  \/ SpClearProc
  \/ \E i \in Plays : Spawn(i)
  \/ \E i \in Plays : SpawnFail(i)
  \/ \E i \in Plays : SetLock(i)
  \/ \E i \in Plays : SetPlaying(i)
  \/ \E i \in Plays : DrainOpen(i)
  \/ \E i \in Plays : DrainEOF(i)
  \/ \E i \in Plays : ExitLock(i)
  \/ \E i \in Plays : NaturalEnd(i)
  \/ \E i \in Plays : ExitError(i)
  \/ \E i \in Plays, rc \in ExitCodes : ProcExit(i, rc)
  \/ \E i \in Plays : ProcTermExit(i)

Spec == Init /\ [][Next]_vars

\* the threads and the handlers that hold the lock keep running; a wait with
\* a timeout returns
ThreadFairness ==
  /\ WF_vars(SpTerm)
  /\ WF_vars(SpWaitExit \/ SpKill)
  /\ WF_vars(SpClearProc)
  /\ WF_vars(StopReturn)
  /\ \A i \in Plays :
       /\ WF_vars(PlayFinish(i))
       /\ WF_vars(Spawn(i) \/ SpawnFail(i))
       /\ WF_vars(SetLock(i))
       /\ WF_vars(SetPlaying(i))
       /\ WF_vars(DrainOpen(i))
       /\ WF_vars(DrainEOF(i))
       /\ WF_vars(ExitLock(i))
       /\ WF_vars(NaturalEnd(i))
       /\ WF_vars(ExitError(i))

FairSpec == Spec /\ ThreadFairness

\* in addition every player process ends: the files played are finite
LiveSpec == FairSpec /\ \A i \in Plays : WF_vars(\E rc \in ExitCodes : ProcExit(i, rc))

(* --------------- the validation of one request, taken alone ----------- *)
\* play() up to line 213 on one request, with no other call and no thread:
\* safe_resolve_path(req.path), then build_command(req, file_path).  Here req
\* is the whole PlayRequest body, its path included, file[1] holds what
\* safe_resolve_path returned or raised and cmd[1] what build_command did.

\* the request paths: the files and directories under the root, reached
\* relatively, absolutely and through "..", and targets outside the root,
\* existing and missing
ValidatePaths ==
  InputPaths \cup
  { RawPath(FALSE, <<Comp("d", ".wav")>>),
    RawPath(FALSE, <<Comp("e", ".WAVE")>>),
    RawPath(FALSE, <<Comp("f", ".raw")>>),
    RawPath(FALSE, <<Comp("g", ".pcm")>>),
    RawPath(TRUE, MUSIC_ROOT \o <<Comp("h", ".wave")>>),
    RawPath(FALSE, <<Comp("x;reboot", ".FLAC")>>),
    RawPath(FALSE, <<Comp("sub", ""), DotDot, Comp("y z$(id)", ".wav")>>),
    RawPath(FALSE, <<DotDot>>),
    RawPath(FALSE, <<DotDot, Comp("nothere", ".flac")>>),
    RawPath(TRUE, <<Comp("etc", ""), Comp("passwd", "")>>),
    RawPath(TRUE, <<Comp("mnt", ""), Comp("music2", ""), Comp("a", ".flac")>>) }

\* lines 80-86: the fields of a PlayRequest
ValidateRequests ==
  [ path : ValidatePaths,
    kind : Kinds,
    pcm_format : {None, Some(""), Some("S16_LE")},
    pcm_rate : {None, Some(0), Some(44100)},
    pcm_channels : {None, Some(2)} ]

ValidateInit ==
  /\ req \in ValidateRequests
  /\ State = PlayerState
  /\ PROC = None
  /\ lock = Free
  /\ spStep = "none"
  /\ nPlays = 0
  /\ nStops = 0
  /\ playRes = NoRes
  /\ file = [i \in Plays |-> <<>>]
  /\ cmd = [i \in Plays |-> <<>>]
  /\ pcSess = [i \in Plays |-> "unstarted"]
  /\ tmpProc = [i \in Plays |-> None]
  /\ procSt = [i \in Plays |-> "none"]
  /\ procRc = [i \in Plays |-> 0]
  /\ sigterm = [i \in Plays |-> FALSE]
  /\ quiet = {}
  /\ lastStatus = PlayerState

\* line 208: file_path = safe_resolve_path(req.path)
ResolvePath ==
  /\ file[1] = <<>>
  /\ file' = [file EXCEPT ![1] = safe_resolve_path(req.path)]
  /\ playRes' = safe_resolve_path(req.path).code
  /\ UNCHANGED <<State, PROC, lock, spStep, req, nPlays, nStops, cmd, pcSess,
                 tmpProc, procSt, procRc, sigterm, quiet, lastStatus>>

\* line 213: cmd = build_command(req, file_path)
BuildCommand ==
  /\ file[1] # <<>> /\ file[1].ok
  /\ cmd[1] = <<>>
  /\ cmd' = [cmd EXCEPT ![1] = build_command(req, file[1].path)]
  /\ playRes' = build_command(req, file[1].path).code
  /\ UNCHANGED <<State, PROC, lock, spStep, req, nPlays, nStops, file, pcSess,
                 tmpProc, procSt, procRc, sigterm, quiet, lastStatus>>

ValidateNext == ResolvePath \/ BuildCommand

ValidateSpec == ValidateInit /\ [][ValidateNext]_vars

(* ---------------- the runs with no play after the stop ---------------- *)
\* the clients make their play calls first and their stop calls after them:
\* once a stop call was made no further play call is made
PlayRejectBeforeStop(raw) == nStops = 0 /\ PlayReject(raw)
PlayCallBeforeStop(raw, rq) == nStops = 0 /\ PlayCall(raw, rq)

StopLastNext ==
  \/ Status
  \/ \E raw \in InputPaths : PlayRejectBeforeStop(raw)
  \/ \E raw \in InputPaths, rq \in Requests : PlayCallBeforeStop(raw, rq)
  \/ \E i \in Plays : PlayFinish(i)
  \/ StopCall
  \/ StopReturn
  \/ SpTerm
  \/ SpWaitExit
  \/ SpKill
  \/ SpClearProc
  \/ \E i \in Plays : Spawn(i)
  \/ \E i \in Plays : SpawnFail(i)
  \/ \E i \in Plays : SetLock(i)
  \/ \E i \in Plays : SetPlaying(i)
  \/ \E i \in Plays : DrainOpen(i)
  \/ \E i \in Plays : DrainEOF(i)
  \/ \E i \in Plays : ExitLock(i)
  \/ \E i \in Plays : NaturalEnd(i)
  \/ \E i \in Plays : ExitError(i)
  \/ \E i \in Plays, rc \in ExitCodes : ProcExit(i, rc)
  \/ \E i \in Plays : ProcTermExit(i)

StopLastSpec == Init /\ [][StopLastNext]_vars

(* ------------------------------ the claims ---------------------------- *)
Running == {i \in Plays : Alive(i)}
\* play call i has returned its summary (its session thread was started)
Returned(i) == pcSess[i] # "unstarted"

\* C1: at most one spawned external process group is alive at any moment,
\* under every interleaving of the calls and the session threads.
C1_OneProcessGroup == Cardinality(Running) <= 1

\* C2: in every state a status call can return (STATE_LOCK free), STATE.pid is
\* non-null if and only if STATE.status is "playing".
C2_PidIffPlaying ==
  lock = Free => (State.pid # None <=> State.status = "playing")

\* C3: once play call i has returned and a later play call j has been made
\* and has returned, no status call reports the pid of session i's process.
C3_NeverFirstPid ==
  \A i, j \in Plays :
    (i < j /\ Returned(i) /\ Returned(j) /\ lock = Free)
      => State.pid # Some(Pid(i))

\* C4: spawn and the update to "playing" are one transition: no status call
\* sees "stopped" while a spawned process runs, nor "playing" with a missing
\* pid or with a pid that is not the one of the owned process.
C4_SpawnAtomic ==
  lock = Free =>
    /\ ~(State.status = "stopped" /\ Running # {})
    /\ State.status = "playing" =>
         (PROC # None /\ State.pid = Some(Pid(PROC[1])))

\* C5: every write of PlayerState and of the owned handle PROC is a step of
\* a call or thread that holds STATE_LOCK.
C5_LockDiscipline ==
  [][(PROC' # PROC \/ State' # State) => (lock # Free \/ lock' # Free)]_vars

\* C6: when a stop call returns, status is "stopped", pid, current_file and
\* started_utc are null and no process handle is owned.
C6_StopPostcondition ==
  [][(lock # Free /\ lock[1] = "stop" /\ lock' = Free)
       => /\ State'.status = "stopped"
          /\ State'.pid = None
          /\ State'.current_file = None
          /\ State'.started_utc = None
          /\ PROC' = None]_vars

\* C7: a play call whose request fails format detection or pipeline
\* construction touches nothing: while it runs, PlayerState is not written,
\* no signal is sent and no process is killed.
C7_BuildFailureTouchesNothing ==
  [][\A i \in Plays :
       (lock = <<"play", i>> /\ ~build_command(req, file[i]).ok)
         => /\ State' = State
            /\ \A j \in Plays : sigterm'[j] => sigterm[j]
            /\ \A j \in Plays : (Alive(j) /\ procSt'[j] = "exited")
                                   => procRc'[j] # -SIGKILL]_vars

\* C8: a play call that fails path resolution is answered with the error and
\* changes nothing: PlayerState, the owned handle, the lock, the processes
\* and the signals sent to them, and the session threads stay as they were.
C8_PathFailureNoMutation ==
  [][(nPlays' = nPlays + 1 /\ lock' = lock)
       => /\ playRes' \in {400, 404}
          /\ UNCHANGED <<State, PROC, spStep, file, cmd, pcSess, tmpProc, procSt,
                         procRc, sigterm>>]_vars

\* a play call was answered "File does not exist" while a session was playing
C8_Witness ==
  /\ playRes = 404
  /\ State.status = "playing"
  /\ Running # {}

\* C9: after a process exits by itself with a nonzero code, with no play or
\* stop call then or later, status eventually reports "error" with that
\* last_exit_code, last_error set, pid null and current_file cleared.
C9_NonzeroExitReported ==
  \A i \in Plays :
    (i \in quiet /\ procRc[i] # 0)
      ~> (\/ i \notin quiet
          \/ /\ lock = Free
             /\ State.status = "error"
             /\ State.last_exit_code = Some(procRc[i])
             /\ State.last_error # None
             /\ State.pid = None
             /\ State.current_file = None)

\* C10: after a process exits by itself with code 0, with no play or stop
\* call then or later, status eventually reports "stopped" with
\* current_file null, pid null and last_exit_code 0.
C10_ZeroExitReported ==
  \A i \in Plays :
    (i \in quiet /\ procRc[i] = 0)
      ~> (\/ i \notin quiet
          \/ /\ lock = Free
             /\ State.status = "stopped"
             /\ State.last_exit_code = Some(0)
             /\ State.pid = None
             /\ State.current_file = None)

\* C11: when the spawn of session i itself raises, the failure is folded into
\* the shared state: unless a further play or stop call is made, status
\* eventually reports "error" with last_error set and pid null.
C11_SpawnFailureReported ==
  \A i \in Plays : \A n \in 0..(MaxPlays + MaxStops) :
    (pcSess[i] = "spawn_failed" /\ nPlays + nStops = n)
      ~> (\/ nPlays + nStops # n
          \/ /\ lock = Free
             /\ State.status = "error"
             /\ State.last_error # None
             /\ State.pid = None)

\* C12: a process group is sent SIGKILL only after the same group was sent
\* SIGTERM and did not exit during the grace wait: every step that kills a
\* running process with SIGKILL finds it already sent SIGTERM.
C12_KillOnlyAfterTerm ==
  [][\A j \in Plays :
       (Alive(j) /\ procSt'[j] = "exited" /\ procRc'[j] = -SIGKILL)
         => sigterm[j]]_vars

\* C13: a play call returns its summary when its session thread is started,
\* before the process is spawned; a session thread that drains the output of
\* its process or waits for it does not hold STATE_LOCK; so the lock is free
\* again and again, however long a playback lasts, and every status, stop and
\* play call gets it and returns.
C13_CallsTerminate ==
  /\ [](\A i \in Plays :
          pcSess[i] \in {"drainopen", "drain", "wait"} => lock # <<"sess", i>>)
  /\ [][\A i \in Plays :
          (~Returned(i) /\ pcSess'[i] # "unstarted")
            => (procSt'[i] = "none" /\ playRes' = OkRes /\ lock' = Free)]_vars
  /\ []<>(lock = Free)

\* a status call returned "playing" and a later play call returned with its
\* thread not yet at Popen, while another session drains a running process
C13_Witness ==
  /\ lock = Free
  /\ lastStatus.status = "playing"
  /\ \E i, j \in Plays :
       /\ pcSess[i] = "drain" /\ Alive(tmpProc[i][1])
       /\ pcSess[j] = "spawn"

\* the kind the claim gives for each extension
ExplicitKind(e) ==
  CASE e = ".flac" -> "flac"
    [] e \in {".wav", ".wave"} -> "wav"
    [] e \in {".pcm", ".raw"} -> "pcm"

\* the lower-cased suffix of the resolved file of the request under validation
ValidatedExt == Lower(file[1].path[Len(file[1].path)].ext)

\* C14: for a file with extension .flac, .wav, .wave, .pcm or .raw, in any
\* letter case, and any setting of the pcm parameters, build_command with
\* kind "auto" returns what it returns with the explicit kind of the
\* extension: the same command or the same error.
C14_AutoIsExplicit ==
  (cmd[1] # <<>> /\ req.kind = "auto"
     /\ ValidatedExt \in {".flac", ".wav", ".wave", ".pcm", ".raw"})
    => cmd[1] = build_command([req EXCEPT !.kind = ExplicitKind(ValidatedExt)],
                              file[1].path)

\* build_command was applied with kind "auto" to a file named *.WAVE and to
\* one named *.PCM with all pcm parameters given
C14_Witness ==
  /\ cmd[1] # <<>> /\ req.kind = "auto" /\ cmd[1].ok
  /\ file[1].path[Len(file[1].path)].ext \in {".WAVE", ".PCM"}

\* play call i holds a request whose resolved kind is pcm with one of
\* pcm_format, pcm_rate, pcm_channels absent
PcmIncomplete(i) ==
  /\ lock = <<"play", i>>
  /\ ResolveKind(req.kind, Lower(file[i][Len(file[i])].ext)) = "pcm"
  /\ (req.pcm_format = None \/ req.pcm_rate = None \/ req.pcm_channels = None)

\* C15: a play call whose resolved kind is pcm with pcm_format, pcm_rate or
\* pcm_channels absent is answered 400 "pcm parameters are required"; its
\* session thread is not started then, and a thread that was not started
\* never has a command or a process.
C15_PcmIncompleteRejected ==
  /\ [][\A i \in Plays :
          (PcmIncomplete(i) /\ lock' = Free)
            => /\ playRes' = 400
               /\ build_command(req, file[i]).detail = "pcm parameters are required"
               /\ pcSess'[i] = "unstarted"
               /\ cmd'[i] = <<>>]_vars
  /\ [][\A i \in Plays :
          (pcSess[i] = "unstarted" /\ pcSess'[i] # "unstarted")
            => (lock = <<"play", i>> /\ ~PcmIncomplete(i))]_vars
  /\ [](\A i \in Plays :
          pcSess[i] = "unstarted" => (procSt[i] = "none" /\ cmd[i] = <<>>))

\* a play of kind "auto" of a *.PCM file without pcm parameters has ended the
\* process of the session before it and is about to be answered
C15_Witness ==
  /\ PcmIncomplete(2) /\ req.kind = "auto"
  /\ spStep = "clearstate"
  /\ procSt[1] = "exited" /\ procRc[1] = -SIGTERM
  /\ pcSess[2] = "unstarted"

\* request paths that lead out of the root: through "..", or absolute; to a
\* file, to a directory, and to nothing
OutsidePaths ==
  { RawPath(FALSE, <<DotDot, DotDot, Comp("etc", ""), Comp("passwd", "")>>),
    RawPath(FALSE, <<DotDot>>),
    RawPath(FALSE, <<DotDot, Comp("nothere", ".flac")>>),
    RawPath(TRUE, <<Comp("etc", ""), Comp("passwd", "")>>),
    RawPath(TRUE, <<Comp("etc", ""), Comp("nothere", "")>>),
    RawPath(TRUE, <<Comp("mnt", ""), Comp("music2", ""), Comp("a", ".flac")>>) }

\* C16: for every request path whose canonical form lies outside MUSIC_ROOT,
\* relative with ".." or absolute, safe_resolve_path raises the 400 "Path is
\* outside music_root", whether the target exists or not.
C16_OutsideRootRejected ==
  (file[1] # <<>>
     /\ (req.path \in OutsidePaths \/ ~IsRelativeTo(Resolve(req.path), MUSIC_ROOT)))
    => file[1] = [ok |-> FALSE, code |-> 400,
                  detail |-> "Path is outside music_root", path |-> <<>>]

\* safe_resolve_path was applied to "../nothere.flac", which names nothing
C16_Witness ==
  /\ file[1] # <<>>
  /\ req.path = RawPath(FALSE, <<DotDot, Comp("nothere", ".flac")>>)
  /\ playRes = 400

\* the decoder and the player
IntendedPrograms == {"/usr/bin/ffmpeg", "/usr/bin/aplay"}

\* a command was built for a file whose name holds shell metacharacters
BuiltForMetaName ==
  /\ cmd[1] # <<>> /\ cmd[1].ok
  /\ HasShellMeta(file[1].path)

ExitHandlingStep(i) ==
  /\ lock = <<"sess", i>>
  /\ pcSess[i] \in {"natural_end", "exit_rc"}
  /\ (spStep' # spStep \/ lock' # lock)

\* C18: the exit handling of a session thread acts on its own process only:
\* once a later play call has spawned a new process, no step of the earlier
\* session's exit handling signals that process, clears its handle from PROC
\* or moves status and pid away from the new session's "playing".
C18_ExitHandlingOwnProcess ==
  [][\A i, j \in Plays :
       (i < j /\ ExitHandlingStep(i) /\ procSt[i] = "exited" /\ procSt[j] # "none")
         => /\ sigterm'[j] => sigterm[j]
            /\ (Alive(j) /\ procSt'[j] = "exited") => procRc'[j] # -SIGKILL
            /\ PROC = Some(j) => PROC' = Some(j)
            /\ (State.status = "playing" /\ State.pid = Some(Pid(j)))
                 => (State'.status = "playing" /\ State'.pid = Some(Pid(j)))]_vars

\* a stop call has been made and no stop call is in progress
StopHasReturned == nStops >= 1 /\ ~(lock # Free /\ lock[1] = "stop")

\* C19: a stop call made after play call i returned cancels that play: with
\* no further play call, once the stop has returned the process of session i
\* is not running and status is not "playing", also when thread i had not
\* yet spawned its process when the stop ran.
C19_StopCancelsPlay ==
  \A i \in Plays :
    (Returned(i) /\ StopHasReturned)
      => (~Alive(i) /\ State.status # "playing")

\* the process of session i was ended by the signal of a stop call that has
\* returned: play call i is the latest play call, no other session ever had
\* a process (so only a stop call can have signalled), and the process died
\* of SIGTERM or SIGKILL
StoppedBySignal(i) ==
  /\ nPlays = i /\ Returned(i)
  /\ \A j \in Plays \ {i} : procSt[j] = "none"
  /\ procSt[i] = "exited" /\ procRc[i] \in {-SIGTERM, -SIGKILL}
  /\ StopHasReturned

\* C20: when a stop call has ended the process of a running session (the
\* thread had set "playing" before the stop) and no further play call is
\* made, status stays "stopped" and last_error null in every later step: the
\* exit handling of the ended session does not report its signal exit code
\* as an error.
C20_StoppedStaysStopped ==
  [][\A i \in Plays :
       (/\ StoppedBySignal(i)
        /\ pcSess[i] \notin {"spawn", "setlock", "setplaying"}
        /\ State.status = "stopped" /\ State.last_error = None)
         => (State'.status = "stopped" /\ State'.last_error = None)]_vars

====
